---- MODULE Spec2Model ----
(***************************************************************************)
(* Model of pypeit/scripts/coadd_2dspec.py: the command-line parser, the   *)
(* orchestration in main(), and the frame combiner it calls into through   *)
(* coadd2d.extract_coadd2d.                                                *)
(***************************************************************************)
EXTENDS Integers, Sequences, FiniteSets, TLC

\* ---------------------------------------------------------------- bounds
MaxNdet == 3
MaxFiles == 2
NExp == 2
NPix == 2

\* ------------------------------------------------------------- constants
\* Python's None for args.det and par['rdx']['detnum'] (detectors are >= 1).
None == -1
\* The 'meta' key of sci_dict (detector keys are the integers >= 1).
meta == 0
\* The value sci_dict['meta']['vel_corr'] is set to.
VelCorr == 0
\* argparse default of --det.
DetDefault == 1

Products == {"sciimg", "sciivar", "skymodel", "objmodel", "ivarmodel", "outmask", "specobjs"}

DIFF == <<"D", "I", "F", "F">>

\* Values of the SKYSUB card of the first spec2d header.
SkysubModes ==
    { <<"M", "O", "D", "E", "L">>,
      <<"D", "I", "F", "F">>,
      <<"A", "B", "D", "I", "F", "F">>,
      <<"D", "I", "F">> }

LoadOutcomes == {"ok", "MissingFileError", "DataConsistencyError"}
ExtractOutcomes == {"ok", "NoObjectsFoundError", "InsufficientDataError"}
\* Outcomes with which extract_coadd2d returns its seven products.
ExtractReturns == {"ok", "NoObjectsFoundError"}

VARIABLES
    pc,               \* position in parser()/main()
    fileArg,          \* --file given
    objArg,           \* --obj given
    detOpt,           \* --det value, None when the caller gives none
    viaParser,        \* args built by parser() (TRUE) or passed to main() directly
    nfiles,           \* number of spec2d files the entry point designates
    ndet,             \* spectrograph.ndet
    skysub,           \* head2d['SKYSUB']
    argsDet,          \* args.det
    detnum,           \* par['rdx']['detnum']
    coaddFileRead,    \* read_coadd2d_file was called
    headersRead,      \* number of fits.getheader calls
    parWritten,       \* par.to_config(par_outfile) was called
    masterDirExists,  \* os.path.isdir(master_dir)
    masterDirCreated, \* os.makedirs(master_dir) was called
    sciDirExists,     \* os.path.isdir(scipath)
    sciDirCreated,    \* os.makedirs(scipath) was called
    ir_redux,
    sci_dict,
    detectors,
    idx,              \* position of the for loop in detectors
    det,
    stack_dict,       \* detector whose stacks stack_dict holds, None when unbound
    events,           \* collaborator calls that returned, in order
    irPassed,         \* ir_redux values passed to extract_coadd2d
    noObjDets,        \* detectors whose extraction found no objects
    saveCalls,        \* number of save.save_all calls
    savedDict,        \* sci_dict as passed to save.save_all
    failure,          \* exception that ended the run
    stack,            \* frame combiner: the exposure stack
    combined,         \* frame combiner: the combined frame
    cpc               \* frame combiner: position

vars == <<pc, fileArg, objArg, detOpt, viaParser, nfiles, ndet, skysub, argsDet,
          detnum, coaddFileRead, headersRead, parWritten, masterDirExists,
          masterDirCreated, sciDirExists, sciDirCreated, ir_redux, sci_dict,
          detectors, idx, det, stack_dict, events, irPassed, noObjDets,
          saveCalls, savedDict, failure, stack, combined, cpc>>

inputVars == <<fileArg, objArg, detOpt, viaParser, nfiles, ndet, skysub>>
diskVars == <<parWritten, masterDirExists, masterDirCreated, sciDirExists, sciDirCreated>>
loopVars == <<sci_dict, detectors, idx, det, stack_dict, events, irPassed, noObjDets>>
saveVars == <<saveCalls, savedDict>>
combVars == <<stack, combined, cpc>>

\* ----------------------------------------------------------- pure helpers

\* parser(): --det has default=1, type=int.
ParseDet(opt) == IF opt = None THEN DetDefault ELSE opt

\* The if / elif / else on args.file and args.obj.
EntryBranch_noElse(file, obj) == IF file THEN "file" ELSE "obj"
EntryBranch(file, obj) ==
    IF file THEN "file" ELSE IF obj THEN "obj" ELSE "none"

\* Python's  sub in s  on strings.
StartsWithAt(s, sub, i) ==
    /\ i + Len(sub) - 1 <= Len(s)
    /\ SubSeq(s, i, i + Len(sub) - 1) = sub
Contains(sub, s) == \E i \in 1..(Len(s) + 1) : StartsWithAt(s, sub, i)

IrRedux_equals(skysub_mode) == skysub_mode = DIFF
IrRedux(skysub_mode) == Contains(DIFF, skysub_mode)

\* PypeIt.select_detectors(detnum, ndet).
select_detectors(dn, nd) ==
    IF dn = None THEN [i \in 1..nd |-> i] ELSE <<dn>>

\* Assignment sci_dict[k] = {} on an OrderedDict: a new key goes last, an
\* existing key keeps its place.
InsertKey_first(keys, k) ==
    IF \E i \in 1..Len(keys) : keys[i] = k THEN keys ELSE <<k>> \o keys
InsertKey(keys, k) ==
    IF \E i \in 1..Len(keys) : keys[i] = k THEN keys ELSE Append(keys, k)

EmptyEntry == [products |-> {}, specobjs |-> "unset"]
SetEntry(ent, k, v) == [d \in (DOMAIN ent) \cup {k} |-> IF d = k THEN v ELSE ent[d]]

\* "for det in detectors" is exhausted.
LoopDone_afterFirst(i, dets) == i > 1
LoopDone(i, dets) == i > Len(dets)

\* Program order of the statements of main() outside the detector loop.
NextStep_parLate(p) ==
    CASE p = "restrict" -> "headers"
      [] p = "headers" -> "mode"
      [] p = "mode" -> "masterdir"
      [] p = "masterdir" -> "scidict"
      [] p = "scidict" -> "select"
      [] p = "select" -> "loop"
      [] p = "loop" -> "scidir"
      [] p = "scidir" -> "writepar"
      [] p = "writepar" -> "save"
      [] p = "save" -> "done"
NextStep(p) ==
    CASE p = "restrict" -> "headers"
      [] p = "headers" -> "writepar"
      [] p = "writepar" -> "mode"
      [] p = "mode" -> "masterdir"
      [] p = "masterdir" -> "scidict"
      [] p = "scidict" -> "select"
      [] p = "select" -> "loop"
      [] p = "loop" -> "scidir"
      [] p = "scidir" -> "save"
      [] p = "save" -> "done"

\* Where main() goes when load_coadd2d_stacks ends with outcome o: there is no
\* try/except, so an exception leaves main().
AfterLoad_swallow(o) == "extract"
AfterLoad(o) == IF o = "ok" THEN "extract" ELSE "abort"

\* Where main() goes when extract_coadd2d ends with outcome o.
AfterExtract_raiseNoObj(o) == IF o = "ok" THEN "loop" ELSE "abort"
AfterExtract(o) == IF o \in ExtractReturns THEN "loop" ELSE "abort"

\* ------------------------------------------------------------------ Init

UnsetDict == [keys |-> << >>,
              meta |-> [vel_corr |-> VelCorr, ir_redux |-> FALSE],
              ent |-> [d \in {} |-> EmptyEntry]]

CombIdle ==
    /\ stack = << >>
    /\ combined = << >>
    /\ cpc = "idle"

MainStart ==
    /\ pc = "start"
    /\ argsDet = None
    /\ detnum = None
    /\ coaddFileRead = FALSE
    /\ headersRead = 0
    /\ parWritten = FALSE
    /\ masterDirCreated = FALSE
    /\ sciDirCreated = FALSE
    /\ ir_redux = FALSE
    /\ sci_dict = UnsetDict
    /\ detectors = << >>
    /\ idx = 1
    /\ det = None
    /\ stack_dict = None
    /\ events = << >>
    /\ irPassed = {}
    /\ noObjDets = {}
    /\ saveCalls = 0
    /\ savedDict = UnsetDict
    /\ failure = "none"

Init ==
    /\ fileArg \in BOOLEAN
    /\ objArg \in BOOLEAN
    /\ detOpt \in {None} \cup (1..MaxNdet)
    /\ viaParser \in BOOLEAN
    /\ nfiles \in 0..MaxFiles
    /\ ndet \in 1..MaxNdet
    /\ skysub \in SkysubModes
    /\ masterDirExists \in BOOLEAN
    /\ sciDirExists \in BOOLEAN
    /\ MainStart
    /\ CombIdle

\* --------------------------------------------------------------- actions

\* parser(): builds args; a direct caller of main() supplies args.det itself.
ParseArgs ==
    /\ pc = "start"
    /\ argsDet' = IF viaParser THEN ParseDet(detOpt) ELSE detOpt
    /\ pc' = "branch"
    /\ UNCHANGED <<inputVars, detnum, coaddFileRead, headersRead, diskVars,
                   ir_redux, loopVars, saveVars, failure, combVars>>

\* args.file is not None: read_coadd2d_file runs, then the right-hand side
\* par.PypeItPar... reads the name par, which is local to main() (it is
\* assigned in main) and not yet bound.
ReadCoadd2dFile ==
    /\ pc = "branch"
    /\ EntryBranch(fileArg, objArg) = "file"
    /\ \E readOk \in BOOLEAN :
          /\ coaddFileRead' = TRUE
          /\ failure' = IF readOk THEN "UnboundLocalError" ELSE "PypeItError"
    /\ pc' = "abort"
    /\ UNCHANGED <<inputVars, argsDet, detnum, headersRead, diskVars, ir_redux,
                   loopVars, saveVars, combVars>>

\* args.obj is not None: glob the spec2d files, read the first header.
GlobObj ==
    /\ pc = "branch"
    /\ EntryBranch(fileArg, objArg) = "obj"
    /\ IF nfiles = 0
         THEN /\ failure' = "IndexError"
              /\ pc' = "abort"
              /\ UNCHANGED <<headersRead, detnum>>
         ELSE /\ headersRead' = headersRead + 1
              /\ detnum' = None
              /\ pc' = "restrict"
              /\ UNCHANGED failure
    /\ UNCHANGED <<inputVars, argsDet, coaddFileRead, diskVars, ir_redux,
                   loopVars, saveVars, combVars>>

\* Neither: msgs.error(...).
NoInput ==
    /\ pc = "branch"
    /\ EntryBranch(fileArg, objArg) = "none"
    /\ failure' = "ConfigurationError"
    /\ pc' = "abort"
    /\ UNCHANGED <<inputVars, argsDet, detnum, coaddFileRead, headersRead,
                   diskVars, ir_redux, loopVars, saveVars, combVars>>

\* if args.det is not None: par['rdx']['detnum'] = int(args.det)
RestrictDet ==
    /\ pc = "restrict"
    /\ detnum' = IF argsDet # None THEN argsDet ELSE detnum
    /\ pc' = NextStep("restrict")
    /\ UNCHANGED <<inputVars, argsDet, coaddFileRead, headersRead, diskVars,
                   ir_redux, loopVars, saveVars, failure, combVars>>

\* head1d, head2d and the basename.
GetHeaders ==
    /\ pc = "headers"
    /\ headersRead' = headersRead + 2
    /\ pc' = NextStep("headers")
    /\ UNCHANGED <<inputVars, argsDet, detnum, coaddFileRead, diskVars,
                   ir_redux, loopVars, saveVars, failure, combVars>>

\* par.to_config(par_outfile)
WritePar ==
    /\ pc = "writepar"
    /\ parWritten' = TRUE
    /\ pc' = NextStep("writepar")
    /\ UNCHANGED <<inputVars, argsDet, detnum, coaddFileRead, headersRead,
                   masterDirExists, masterDirCreated, sciDirExists,
                   sciDirCreated, ir_redux, loopVars, saveVars, failure, combVars>>

\* skysub_mode = head2d['SKYSUB']; ir_redux = 'DIFF' in skysub_mode
SetMode ==
    /\ pc = "mode"
    /\ ir_redux' = IrRedux(skysub)
    /\ pc' = NextStep("mode")
    /\ UNCHANGED <<inputVars, argsDet, detnum, coaddFileRead, headersRead,
                   diskVars, loopVars, saveVars, failure, combVars>>

\* if not os.path.isdir(master_dir): os.makedirs(master_dir)
MakeMasterDir ==
    /\ pc = "masterdir"
    /\ masterDirCreated' = ~masterDirExists
    /\ masterDirExists' = TRUE
    /\ pc' = NextStep("masterdir")
    /\ UNCHANGED <<inputVars, argsDet, detnum, coaddFileRead, headersRead,
                   parWritten, sciDirExists, sciDirCreated, ir_redux, loopVars,
                   saveVars, failure, combVars>>

\* sci_dict = OrderedDict(); sci_dict['meta'] = {vel_corr: 0., ir_redux: ir_redux}
InitSciDict ==
    /\ pc = "scidict"
    /\ sci_dict' = [keys |-> InsertKey(<< >>, meta),
                    meta |-> [vel_corr |-> VelCorr, ir_redux |-> ir_redux],
                    ent |-> [d \in {} |-> EmptyEntry]]
    /\ pc' = NextStep("scidict")
    /\ UNCHANGED <<inputVars, argsDet, detnum, coaddFileRead, headersRead,
                   diskVars, ir_redux, detectors, idx, det, stack_dict, events,
                   irPassed, noObjDets, saveVars, failure, combVars>>

\* detectors = PypeIt.select_detectors(detnum=par['rdx']['detnum'], ndet=spectrograph.ndet)
SelectDetectors ==
    /\ pc = "select"
    /\ detectors' = select_detectors(detnum, ndet)
    /\ idx' = 1
    /\ pc' = NextStep("select")
    /\ UNCHANGED <<inputVars, argsDet, detnum, coaddFileRead, headersRead,
                   diskVars, ir_redux, sci_dict, det, stack_dict, events,
                   irPassed, noObjDets, saveVars, failure, combVars>>

\* for det in detectors: sci_dict[det] = {}
LoopNext ==
    /\ pc = "loop"
    /\ ~LoopDone(idx, detectors)
    /\ idx <= Len(detectors)
    /\ det' = detectors[idx]
    /\ sci_dict' = [sci_dict EXCEPT
                      !.keys = InsertKey(@, detectors[idx]),
                      !.ent = SetEntry(@, detectors[idx], EmptyEntry)]
    /\ pc' = "load"
    /\ UNCHANGED <<inputVars, argsDet, detnum, coaddFileRead, headersRead,
                   diskVars, ir_redux, detectors, idx, stack_dict, events,
                   irPassed, noObjDets, saveVars, failure, combVars>>

\* The for loop is exhausted.
LoopExit ==
    /\ pc = "loop"
    /\ LoopDone(idx, detectors)
    /\ pc' = NextStep("loop")
    /\ UNCHANGED <<inputVars, argsDet, detnum, coaddFileRead, headersRead,
                   diskVars, ir_redux, loopVars, saveVars, failure, combVars>>

\* stack_dict = coadd2d.load_coadd2d_stacks(spec2d_files, det)
LoadStacks ==
    /\ pc = "load"
    /\ \E o \in LoadOutcomes :
          /\ stack_dict' = IF o = "ok" THEN det ELSE stack_dict
          /\ events' = IF o = "ok" THEN Append(events, <<"load", det>>) ELSE events
          /\ failure' = IF o = "ok" THEN failure ELSE o
          /\ pc' = AfterLoad(o)
    /\ UNCHANGED <<inputVars, argsDet, detnum, coaddFileRead, headersRead,
                   diskVars, ir_redux, sci_dict, detectors, idx, det, irPassed,
                   noObjDets, saveVars, combVars>>

\* sci_dict[det][...] = coadd2d.extract_coadd2d(stack_dict, master_dir, det,
\*                                              ir_redux=ir_redux, ...)
Extract ==
    /\ pc = "extract"
    /\ \E o \in ExtractOutcomes :
          /\ irPassed' = irPassed \cup {ir_redux}
          /\ sci_dict' =
                IF o \in ExtractReturns
                  THEN [sci_dict EXCEPT !.ent = SetEntry(@, det,
                          [products |-> Products,
                           specobjs |-> IF o = "NoObjectsFoundError"
                                          THEN "empty" ELSE "objects"])]
                  ELSE sci_dict
          /\ events' = IF o \in ExtractReturns
                         THEN Append(events, <<"extract", det>>) ELSE events
          /\ noObjDets' = IF o = "NoObjectsFoundError"
                            THEN noObjDets \cup {det} ELSE noObjDets
          /\ pc' = AfterExtract(o)
          /\ failure' = IF AfterExtract(o) = "abort" THEN o ELSE failure
          /\ idx' = IF AfterExtract(o) = "loop" THEN idx + 1 ELSE idx
    /\ UNCHANGED <<inputVars, argsDet, detnum, coaddFileRead, headersRead,
                   diskVars, ir_redux, detectors, det, stack_dict, saveVars,
                   combVars>>

\* if not os.path.isdir(scipath): os.makedirs(scipath)
MakeSciDir ==
    /\ pc = "scidir"
    /\ sciDirCreated' = ~sciDirExists
    /\ sciDirExists' = TRUE
    /\ pc' = NextStep("scidir")
    /\ UNCHANGED <<inputVars, argsDet, detnum, coaddFileRead, headersRead,
                   parWritten, masterDirExists, masterDirCreated, ir_redux,
                   loopVars, saveVars, failure, combVars>>

\* save.save_all(sci_dict, stack_dict['master_key_dict'], ...)
SaveAll ==
    /\ pc = "save"
    /\ IF stack_dict = None
         THEN /\ failure' = "NameError"
              /\ pc' = "abort"
              /\ UNCHANGED saveVars
         ELSE /\ saveCalls' = saveCalls + 1
              /\ savedDict' = sci_dict
              /\ pc' = NextStep("save")
              /\ UNCHANGED failure
    /\ UNCHANGED <<inputVars, argsDet, detnum, coaddFileRead, headersRead,
                   diskVars, ir_redux, loopVars, combVars>>

Next ==
    \/ ParseArgs
    \/ ReadCoadd2dFile
    \/ GlobObj
    \/ NoInput
    \/ RestrictDet
    \/ GetHeaders
    \/ WritePar
    \/ SetMode
    \/ MakeMasterDir
    \/ InitSciDict
    \/ SelectDetectors
    \/ LoopNext
    \/ LoopExit
    \/ LoadStacks
    \/ Extract
    \/ MakeSciDir
    \/ SaveAll

Spec == Init /\ [][Next]_vars

\* -------------------------------------------------------- frame combiner
\* The combine step inside coadd2d.extract_coadd2d: the combined inverse
\* variance and mask of the exposures of one detector.

\* Inverse-variance values of an exposure pixel (zero: no information).
IvarLevels == {0, 1}

Cell == [ivar : IvarLevels, masked : BOOLEAN]
Stacks == UNION { [1..n -> [1..NPix -> Cell]] : n \in 1..NExp }

\* Weight of one exposure pixel: its inverse variance, zero when masked.
Weight_ignoresMask(c) == c.ivar
Weight(c) == IF c.masked THEN 0 ELSE c.ivar

RECURSIVE SumWeight(_, _, _)
SumWeight(st, p, n) ==
    IF n = 0 THEN 0 ELSE Weight(st[n][p]) + SumWeight(st, p, n - 1)

TotalWeight(st, p) == SumWeight(st, p, Len(st))

CombineFrame(st) ==
    [p \in 1..NPix |->
        [ivar |-> TotalWeight(st, p),
         bad |-> TotalWeight(st, p) = 0]]

\* No exposure contributes anywhere in the frame.
InsufficientData(st) == \A p \in 1..NPix : TotalWeight(st, p) = 0

MainIdle ==
    /\ fileArg = FALSE
    /\ objArg = FALSE
    /\ detOpt = None
    /\ viaParser = TRUE
    /\ nfiles = 0
    /\ ndet = 1
    /\ skysub = DIFF
    /\ masterDirExists = FALSE
    /\ sciDirExists = FALSE
    /\ MainStart

CombineInit ==
    /\ MainIdle
    /\ stack \in Stacks
    /\ combined = << >>
    /\ cpc = "loaded"

Combine ==
    /\ cpc = "loaded"
    /\ ~InsufficientData(stack)
    /\ combined' = CombineFrame(stack)
    /\ cpc' = "combined"
    /\ UNCHANGED <<pc, inputVars, argsDet, detnum, coaddFileRead, headersRead,
                   diskVars, ir_redux, loopVars, saveVars, failure, stack>>

CombineInsufficient ==
    /\ cpc = "loaded"
    /\ InsufficientData(stack)
    /\ cpc' = "InsufficientDataError"
    /\ UNCHANGED <<pc, inputVars, argsDet, detnum, coaddFileRead, headersRead,
                   diskVars, ir_redux, loopVars, saveVars, failure, stack,
                   combined>>

CombineNext ==
    \/ Combine
    \/ CombineInsufficient

CombineSpec == CombineInit /\ [][CombineNext]_vars

\* ---------------------------------------------------------------- claims

Range(seq) == { seq[i] : i \in 1..Len(seq) }

\* Failures of the stack loader or of combine/extract that end the run.
HardFailures == (LoadOutcomes \cup ExtractOutcomes) \ ExtractReturns

\* d holds 'meta' and one entry per selected detector, each with all seven
\* products.
Complete(d) ==
    /\ Range(d.keys) = {meta} \cup Range(detectors)
    /\ DOMAIN d.ent = Range(detectors)
    /\ \A k \in DOMAIN d.ent : d.ent[k].products = Products /\ d.ent[k].specobjs # "unset"

AllProcessed ==
    \A k \in Range(detectors) :
        /\ <<"load", k>> \in Range(events)
        /\ <<"extract", k>> \in Range(events)

\* C1: save.save_all is called at most once, exactly once in a run that reaches
\* Done, and only after every selected detector has been loaded and extracted;
\* the SciDict it receives holds 'meta' and a fully populated entry (all seven
\* products) for every selected detector.
C1_SaveOnceComplete ==
    /\ saveCalls <= 1
    /\ (pc = "done") <=> (saveCalls = 1)
    /\ saveCalls = 1 => (Complete(savedDict) /\ AllProcessed /\ savedDict = sci_dict)

C1_Witness == pc = "done" /\ saveCalls = 1 /\ Len(detectors) >= 2

\* C2: after a hard failure of the stack load or of combine/extract the run is
\* aborted: save.save_all has not been called, no detector after the failing one
\* has an entry or a collaborator call, and no further step is taken.
C2_HardFailureAborts ==
    /\ [](failure \in HardFailures =>
            /\ pc = "abort"
            /\ saveCalls = 0
            /\ idx <= Len(detectors)
            /\ \A i \in (idx + 1)..Len(detectors) :
                  /\ detectors[i] \notin DOMAIN sci_dict.ent
                  /\ \A e \in Range(events) : e[2] # detectors[i])
    /\ [][~(failure \in HardFailures)]_vars

C2_Witness ==
    /\ failure \in HardFailures
    /\ idx >= 2
    /\ idx < Len(detectors)

\* C3 (as claimed): a run that ends in a fatal error of the stack loader or the
\* frame combiner has written nothing: no parameter file, no master directory,
\* no Science_coadd directory.
C3_Original ==
    failure \in HardFailures =>
        /\ ~parWritten
        /\ ~masterDirCreated
        /\ ~sciDirCreated

\* C3 (amended): a run that ends in a fatal error of the stack loader or the
\* frame combiner has not created the Science_coadd directory and has not called
\* save.save_all; the parameter file has already been written and the master
\* directory exists by then.
C3_NoScienceOutputOnFatal ==
    failure \in HardFailures =>
        /\ ~sciDirCreated
        /\ saveCalls = 0
        /\ parWritten
        /\ masterDirExists

C3_Witness == failure \in HardFailures /\ masterDirCreated /\ parWritten

\* C4: with neither --file nor --obj, main ends in a configuration error before
\* anything is processed: no header or coadd2d file read, nothing written, no
\* detector loaded or extracted, save.save_all not called.
C4_NoInputFatal ==
    (~fileArg /\ ~objArg /\ pc \notin {"start", "branch"}) =>
        /\ pc = "abort"
        /\ failure = "ConfigurationError"
        /\ headersRead = 0
        /\ ~coaddFileRead
        /\ ~parWritten
        /\ ~masterDirCreated
        /\ ~sciDirCreated
        /\ sci_dict = UnsetDict
        /\ events = << >>
        /\ irPassed = {}
        /\ saveCalls = 0

C4_Witness == failure = "ConfigurationError" /\ pc = "abort"

\* Exceptions raised by a collaborator (configuration reader, stack loader,
\* combine/extract).
CollaboratorFailures == HardFailures \cup {"PypeItError"}

\* C5 (as claimed): a run started through --file or --obj, on at least one
\* spec2d file, ends in abort only if a collaborator failed; otherwise it ends
\* in Done.
C5_Original ==
    ((fileArg \/ objArg) /\ nfiles > 0 /\ pc = "abort") =>
        failure \in CollaboratorFailures

\* C6 (as claimed): the detectors processed are the single detector given with
\* --det, and all detectors 1..ndet when no --det is given.
C6_Original ==
    detectors # << >> =>
        detectors = IF detOpt # None THEN <<detOpt>> ELSE [i \in 1..ndet |-> i]

\* C7: a detector whose extraction finds no objects keeps an entry with an empty
\* object collection; finding no objects never ends the run, and a run with such
\* a detector that reaches Done has loaded and extracted every selected
\* detector and called save.save_all once with the complete SciDict.
C7_NoObjectsRecoverable ==
    /\ failure # "NoObjectsFoundError"
    /\ \A k \in noObjDets :
          /\ k \in DOMAIN sci_dict.ent
          /\ sci_dict.ent[k] = [products |-> Products, specobjs |-> "empty"]
    /\ (noObjDets # {} /\ pc = "abort") => failure \in HardFailures
    /\ (noObjDets # {} /\ pc = "done") =>
          /\ saveCalls = 1
          /\ AllProcessed
          /\ Complete(savedDict)
          /\ \A k \in noObjDets : savedDict.ent[k].specobjs = "empty"

C7_Witness ==
    /\ pc = "done"
    /\ Len(detectors) >= 2
    /\ detectors[1] \in noObjDets
    /\ detectors[Len(detectors)] \notin noObjDets

\* C8: in a combined frame the inverse variance is zero wherever the mask marks
\* the pixel bad, and a pixel masked in every exposure is marked bad.
C8_BadPixelsZeroIvar ==
    cpc = "combined" =>
        \A p \in 1..NPix :
            /\ (\A e \in 1..Len(stack) : stack[e][p].masked) =>
                  (combined[p].bad /\ combined[p].ivar = 0)
            /\ combined[p].bad => combined[p].ivar = 0

C8_Witness ==
    /\ cpc = "combined"
    /\ Len(stack) >= 2
    /\ \E p \in 1..NPix :
          /\ \A e \in 1..Len(stack) : stack[e][p].masked /\ stack[e][p].ivar > 0
          /\ combined[p].bad

\* C9: detectors are taken in ascending order, one at a time; the collaborator
\* calls are load(d1), extract(d1), load(d2), extract(d2), ...; the SciDict keys
\* at hand-off are 'meta' followed by the detectors in that order.
C9_AscendingStateMachine ==
    /\ \A i, j \in 1..Len(detectors) : i < j => detectors[i] < detectors[j]
    /\ \A k \in 1..Len(events) :
          events[k] = <<IF k % 2 = 1 THEN "load" ELSE "extract",
                        detectors[(k + 1) \div 2]>>
    /\ pc = "load" => (Len(events) = 2 * (idx - 1) /\ det = detectors[idx])
    /\ pc = "extract" => (Len(events) = 2 * idx - 1 /\ det = detectors[idx])
    /\ pc = "loop" => Len(events) = 2 * (idx - 1)
    /\ sci_dict.keys # << >> =>
          sci_dict.keys = <<meta>> \o SubSeq(detectors, 1, Len(sci_dict.keys) - 1)
    /\ saveCalls = 1 =>
          /\ savedDict.keys = <<meta>> \o detectors
          /\ Len(events) = 2 * Len(detectors)

C9_Witness == pc = "done" /\ Len(detectors) >= 3 /\ Len(events) = 6

\* 'DIFF' occurs in s.
HasDIFF(s) ==
    \E i \in 1..Len(s) :
        /\ i + 3 <= Len(s)
        /\ s[i] = "D" /\ s[i + 1] = "I" /\ s[i + 2] = "F" /\ s[i + 3] = "F"

\* C10: once set, the 'meta' entry never changes; its ir_redux flag is true
\* exactly when the SKYSUB mode contains 'DIFF', every extract_coadd2d call is
\* passed that same flag, and save.save_all receives the same 'meta'.
C10_MetaComputedOnce ==
    /\ [](/\ sci_dict.keys # << >> =>
               sci_dict.meta = [vel_corr |-> VelCorr, ir_redux |-> HasDIFF(skysub)]
          /\ \A f \in irPassed : f = sci_dict.meta.ir_redux
          /\ saveCalls = 1 => savedDict.meta = sci_dict.meta)
    /\ [][sci_dict.keys # << >> => sci_dict'.meta = sci_dict.meta]_vars

C10_Witness ==
    /\ pc = "done"
    /\ Len(detectors) >= 2
    /\ savedDict.meta.ir_redux
    /\ skysub # DIFF
    /\ irPassed = {TRUE}

====
